---- MODULE Spec2Model ----
(***************************************************************************)
(* Equivocation detection with bounded retention: a model of               *)
(* core/consensus/slots/src/aux_schema.rs (check_equivocation over the     *)
(* aux store).                                                             *)
(***************************************************************************)
EXTENDS Integers, Sequences, FiniteSets, TLC

(***************************************************************************)
(* Program constants.                                                      *)
(***************************************************************************)
MAX_SLOT_CAPACITY == 1000

PRUNING_BOUND == 2 * MAX_SLOT_CAPACITY

(***************************************************************************)
(* Bounds of the model.                                                    *)
(***************************************************************************)
\* Width of the unsigned slot type (u64 in the source, narrowed here).
WordBits == 13

\* Slots and times are the multiples k * MAX_SLOT_CAPACITY, k in 0..MaxEpoch.
MaxEpoch == 3

\* A behaviour of the disciplined caller makes at most MaxCalls calls; one
\* with store failures takes at most MaxFaultCalls steps, one of an
\* undisciplined caller makes at most MaxAnyCalls calls.
MaxCalls == 4

MaxFaultCalls == 3

MaxAnyCalls == 2

\* Callers that do not wait for one another: MaxProcs of them, starting at
\* most MaxRaceCalls calls between them.
MaxProcs == 2

MaxRaceCalls == 3

Modulus == 2 ^ WordBits

MaxWord == Modulus - 1

SlotPoints == {k * MAX_SLOT_CAPACITY : k \in 0..MaxEpoch}

\* A smaller set of points, for the callers that bring other inputs along.
FewPoints == {k * MAX_SLOT_CAPACITY : k \in 0..(MaxEpoch - 1)}

\* Times of the callers that share the store: the start, and the first time
\* at which a watermark written at the start is due for pruning.
RacePoints == {0, PRUNING_BOUND}

\* Arguments of an undisciplined caller: these points and the largest word.
AnyPoints == FewPoints \cup {MaxWord}

\* The callers that share the store.
Procs == 1..MaxProcs

\* Headers and signers are opaque values.
Headers == {0, 1}

Signers == {0, 1}

\* header.hash(): the hash of the header's content, free of collisions.
Hash(h) == <<"hash", h>>

(***************************************************************************)
(* Unsigned arithmetic.                                                    *)
(***************************************************************************)
\* a - b of the unsigned type when it does not panic: wraps modulo 2^width.
WrappingSub(a, b) == (a - b + Modulus) % Modulus

\* a - b underflows: a panic with overflow checks, a wrap without.
Underflows(a, b) == a < b

SaturatingSub(a, b) == IF a >= b THEN a - b ELSE 0

(***************************************************************************)
(* The aux store: raw values under the slot keys and the start key.        *)
(* A raw value is absent ("none"), bytes written by encode ("scale") or    *)
(* bytes that do not decode ("junk").                                      *)
(***************************************************************************)
Absent(v) == [tag |-> "none", val |-> v]

Junk(v) == [tag |-> "junk", val |-> v]

Encode(v) == [tag |-> "scale", val |-> v]

\* T::decode: Some(value) for bytes written by encode, None otherwise.
Decode(raw) == IF raw.tag = "scale" THEN [some |-> TRUE, val |-> raw.val]
               ELSE [some |-> FALSE, val |-> raw.val]

\* A load that hands back the type's default for a missing value: the caller's
\* own default (unwrap_or) is never used.
LoadDecodeAbsentAsDefault(raw) ==
    IF raw.tag = "none" THEN [ok |-> TRUE, some |-> TRUE, val |-> raw.val]
    ELSE LET d == Decode(raw)
         IN  [ok |-> d.some, some |-> d.some, val |-> d.val]

\* A load that takes bytes it cannot decode for a missing value.
LoadDecodeOrDefault(raw) ==
    [ok |-> TRUE, some |-> raw.tag = "scale", val |-> raw.val]

\* load_decode on the raw value a successful get_aux returned.
LoadDecode(raw) ==
    IF raw.tag = "none" THEN [ok |-> TRUE, some |-> FALSE, val |-> raw.val]
    ELSE LET d == Decode(raw)
         IN  [ok |-> d.some, some |-> d.some, val |-> d.val]

VARIABLES
    slot_header_map,    \* raw value under SLOT_HEADER_MAP_KEY ++ slot, per slot
    slot_header_start,  \* raw value under SLOT_HEADER_START
    last,               \* the last call: its arguments, what it did, and
                        \* whether it repeated the call before it
    recorded,           \* history: every <<slot, signer, header>> ever written
    calls               \* per caller sharing the store: where its call in flight
                        \* stands, its arguments and its local variables

vars == <<slot_header_map, slot_header_start, last, recorded, calls>>

\* Every slot key the model's callers can name.
Keys == SlotPoints \cup AnyPoints

NoFault == 0

FailGetHeaders == 1

FailGetStart == 2

FailInsert == 3

(***************************************************************************)
(* check_equivocation, step by step.                                       *)
(***************************************************************************)
\* An age check that lets every header through.
TooOldNever(slot_now, slot) == FALSE

\* An age check against the wrong constant.
TooOldAtPruningBound(slot_now, slot) == WrappingSub(slot_now, slot) > PRUNING_BOUND

\* if slot_now - slot > MAX_SLOT_CAPACITY { return Ok(None) }
TooOld(slot_now, slot) == WrappingSub(slot_now, slot) > MAX_SLOT_CAPACITY

\* A scan that forgets to compare the signer: the first entry, whoever signed.
FirstOfAnySigner(headers_with_sig, signer) ==
    IF Len(headers_with_sig) = 0 THEN 0 ELSE 1

\* A scan that looks at the last entry only.
FirstBySignerTailOnly(headers_with_sig, signer) ==
    IF /\ Len(headers_with_sig) > 0
       /\ headers_with_sig[Len(headers_with_sig)][2] = signer
    THEN Len(headers_with_sig) ELSE 0

\* A scan that looks at the first entry only.
FirstBySignerHeadOnly(headers_with_sig, signer) ==
    IF Len(headers_with_sig) > 0 /\ headers_with_sig[1][2] = signer THEN 1 ELSE 0

\* The loop over headers_with_sig stops at the first entry of the signer:
\* its index, 0 when the signer has no entry.
FirstBySigner(headers_with_sig, signer) ==
    LET idx == {i \in 1..Len(headers_with_sig) : headers_with_sig[i][2] = signer}
    IN  IF idx = {} THEN 0 ELSE CHOOSE i \in idx : \A j \in idx : i <= j

\* EquivocationProof { slot, fst_header: prev_header, snd_header: header }
EquivocationProof(slot, prev_header, header) ==
    [slot |-> slot, fst_header |-> prev_header, snd_header |-> header]

\* The proof field of a call that returned none.
NoProof == [slot |-> 0, fst_header |-> 0, snd_header |-> 0]

\* A scan that does not stop at a duplicate: the header is recorded again.
ScanIgnoresDuplicates(headers_with_sig, slot, header, signer) ==
    LET i == FirstBySigner(headers_with_sig, signer)
    IN  IF i # 0 /\ Hash(header) # Hash(headers_with_sig[i][1])
        THEN [kind |-> "proof",
              proof |-> EquivocationProof(slot, headers_with_sig[i][1], header)]
        ELSE [kind |-> "new", proof |-> NoProof]

\* What the loop decides: a proof against the stored header ("proof"), a
\* duplicate of it ("dup"), or a header to record ("new").
Scan(headers_with_sig, slot, header, signer) ==
    LET i == FirstBySigner(headers_with_sig, signer)
    IN  IF i = 0 THEN [kind |-> "new", proof |-> NoProof]
        ELSE IF Hash(header) # Hash(headers_with_sig[i][1])
             THEN [kind |-> "proof",
                   proof |-> EquivocationProof(slot, headers_with_sig[i][1], header)]
             ELSE [kind |-> "dup", proof |-> NoProof]

\* A pruning test that is off by one.
PruningDueStrict(slot_now, first_saved_slot) ==
    WrappingSub(slot_now, first_saved_slot) > PRUNING_BOUND

\* if slot_now - first_saved_slot >= PRUNING_BOUND
PruningDue(slot_now, first_saved_slot) ==
    WrappingSub(slot_now, first_saved_slot) >= PRUNING_BOUND

\* A pruning that never moves the watermark.
NewFirstSavedSlotStale(slot_now, first_saved_slot) == first_saved_slot

\* A pruning that keeps no capacity window: everything before slot_now goes.
NewFirstSavedSlotNoWindow(slot_now, first_saved_slot) ==
    IF PruningDue(slot_now, first_saved_slot) THEN slot_now ELSE first_saved_slot

NewFirstSavedSlot(slot_now, first_saved_slot) ==
    IF PruningDue(slot_now, first_saved_slot)
    THEN SaturatingSub(slot_now, MAX_SLOT_CAPACITY)
    ELSE first_saved_slot

\* for s in first_saved_slot..new_first_saved_slot { keys_to_delete.push(..) }
KeysToDelete(slot_now, first_saved_slot) ==
    IF PruningDue(slot_now, first_saved_slot)
    THEN {s \in Keys : /\ first_saved_slot <= s
                       /\ s < NewFirstSavedSlot(slot_now, first_saved_slot)}
    ELSE {}

\* A push at the front: the entries already stored move down.
PushFront(headers_with_sig, header, signer) == <<<<header, signer>>>> \o headers_with_sig

\* headers_with_sig.push((header.clone(), signer.clone()))
Push(headers_with_sig, header, signer) == Append(headers_with_sig, <<header, signer>>)

\* insert_aux(&[(curr_slot_key, list), (start key, start)], &keys_to_delete)
\* on the slot keys: one atomic batch, the inserts first and then the deletes.
\* A batch that fails writes nothing (see Decide).
InsertAux(map, slot, list, deletes) ==
    [s \in Keys |-> IF s \in deletes THEN Absent(<<>>)
                    ELSE IF s = slot THEN Encode(list)
                    ELSE map[s]]

\* What a call hands back and leaves behind: its result ("none" for Ok(None),
\* "proof" for Ok(Some(proof)), "err" for Err, "panic"), the store operations
\* it made and the store after it.
Outcome(res, proof, reads, writes, first, map, start) ==
    [res |-> res, proof |-> proof, reads |-> reads, writes |-> writes,
     first_saved_slot |-> first, map |-> map, start |-> start]

\* A tail that records the equivocating header before it returns the proof.
DecideRecordsEquivocation(map, start, slot_now, slot, header, signer, checks, fail, headers_with_sig, first_saved_slot) ==
    LET sc == Scan(headers_with_sig, slot, header, signer)
    IN  IF sc.kind = "dup"
        THEN Outcome("none", NoProof, 2, 0, first_saved_slot, map, start)
        ELSE Outcome(IF sc.kind = "proof" THEN "proof" ELSE "none", sc.proof, 2, 1,
                     first_saved_slot,
                     InsertAux(map, slot, Push(headers_with_sig, header, signer),
                               KeysToDelete(slot_now, first_saved_slot)),
                     Encode(NewFirstSavedSlot(slot_now, first_saved_slot)))

\* A tail that reads the slot's list again inside the write, as a caller
\* holding a lock over the whole call would see it.
DecideOnFreshRead(map, start, slot_now, slot, header, signer, checks, fail, headers_with_sig, first_saved_slot) ==
    LET fresh == IF LoadDecode(map[slot]).some THEN map[slot].val ELSE <<>>
        sc == Scan(fresh, slot, header, signer)
    IN  IF sc.kind = "proof"
        THEN Outcome("proof", sc.proof, 2, 0, first_saved_slot, map, start)
        ELSE IF sc.kind = "dup"
        THEN Outcome("none", NoProof, 2, 0, first_saved_slot, map, start)
        ELSE IF Underflows(slot_now, first_saved_slot) /\ checks
        THEN Outcome("panic", NoProof, 2, 0, first_saved_slot, map, start)
        ELSE IF fail = FailInsert
        THEN Outcome("err", NoProof, 2, 0, first_saved_slot, map, start)
        ELSE Outcome("none", NoProof, 2, 1, first_saved_slot,
                     InsertAux(map, slot, Push(fresh, header, signer),
                               KeysToDelete(slot_now, first_saved_slot)),
                     Encode(NewFirstSavedSlot(slot_now, first_saved_slot)))

\* The tail of check_equivocation once both reads have decoded.
Decide(map, start, slot_now, slot, header, signer, checks, fail, headers_with_sig, first_saved_slot) ==
    LET sc == Scan(headers_with_sig, slot, header, signer)
    IN  IF sc.kind = "proof"
        THEN Outcome("proof", sc.proof, 2, 0, first_saved_slot, map, start)
        ELSE IF sc.kind = "dup"
        THEN Outcome("none", NoProof, 2, 0, first_saved_slot, map, start)
        ELSE IF Underflows(slot_now, first_saved_slot) /\ checks
        THEN Outcome("panic", NoProof, 2, 0, first_saved_slot, map, start)
        ELSE IF fail = FailInsert
        THEN Outcome("err", NoProof, 2, 0, first_saved_slot, map, start)
        ELSE Outcome("none", NoProof, 2, 1, first_saved_slot,
                     InsertAux(map, slot, Push(headers_with_sig, header, signer),
                               KeysToDelete(slot_now, first_saved_slot)),
                     Encode(NewFirstSavedSlot(slot_now, first_saved_slot)))

\* check_equivocation(backend, slot_now, slot, header, signer) on the store
\* <<map, start>>; checks: the build panics on arithmetic overflow;
\* fail: the store operation that fails in this call, if any.
CheckEquivocation(map, start, slot_now, slot, header, signer, checks, fail) ==
    IF Underflows(slot_now, slot) /\ checks
    THEN Outcome("panic", NoProof, 0, 0, 0, map, start)
    ELSE IF TooOld(slot_now, slot)
    THEN Outcome("none", NoProof, 0, 0, 0, map, start)
    ELSE IF fail = FailGetHeaders \/ ~LoadDecode(map[slot]).ok
    THEN Outcome("err", NoProof, 1, 0, 0, map, start)
    ELSE IF fail = FailGetStart \/ ~LoadDecode(start).ok
    THEN Outcome("err", NoProof, 2, 0, 0, map, start)
    ELSE LET l1 == LoadDecode(map[slot])
             l2 == LoadDecode(start)
         IN  Decide(map, start, slot_now, slot, header, signer, checks, fail,
                    IF l1.some THEN l1.val ELSE <<>>,
                    IF l2.some THEN l2.val ELSE slot)

(***************************************************************************)
(* The state machine.                                                      *)
(***************************************************************************)
\* A caller with no call in flight.
IdleCall ==
    [pc |-> "idle", slot_now |-> 0, slot |-> 0, header |-> 0, signer |-> 0,
     headers_with_sig |-> <<>>, first_saved_slot |-> 0, res |-> "none",
     proof |-> NoProof, writes |-> 0]

Init ==
    /\ slot_header_map = [s \in Keys |-> Absent(<<>>)]
    /\ slot_header_start = Absent(0)
    /\ last = [n |-> 0, op |-> "init", slot_now |-> 0, slot |-> 0, header |-> 0,
               signer |-> 0, fail |-> NoFault, res |-> "none",
               proof |-> NoProof, reads |-> 0, writes |-> 0,
               first_saved_slot |-> 0, again |-> FALSE]
    /\ recorded = {}
    /\ calls = [p \in Procs |-> IdleCall]

\* One whole call of check_equivocation.
Call(slot_now, slot, header, signer, checks, fail) ==
    \E out \in {CheckEquivocation(slot_header_map, slot_header_start,
                                  slot_now, slot, header, signer, checks, fail)} :
        /\ slot_header_map' = out.map
        /\ slot_header_start' = out.start
        /\ last' = [n |-> last.n + 1, op |-> "call", slot_now |-> slot_now, slot |-> slot,
                    header |-> header, signer |-> signer, fail |-> fail,
                    res |-> out.res, proof |-> out.proof, reads |-> out.reads,
                    writes |-> out.writes,
                    first_saved_slot |-> out.first_saved_slot,
                    again |-> /\ last.op = "call"
                              /\ last.slot_now = slot_now
                              /\ last.slot = slot
                              /\ last.header = header
                              /\ last.signer = signer]
        /\ recorded' = IF out.writes = 1
                       THEN recorded \cup {<<slot, signer, header>>}
                       ELSE recorded
        /\ UNCHANGED calls

\* A disciplined caller: one call at a time, time never runs backwards and
\* no header comes from the future.
SeqCall ==
    /\ last.n < MaxCalls
    /\ \E slot_now \in SlotPoints, slot \in SlotPoints, header \in Headers,
          signer \in Signers :
           /\ last.slot_now <= slot_now
           /\ slot <= slot_now
           /\ Call(slot_now, slot, header, signer, TRUE, NoFault)

Next == SeqCall

Spec == Init /\ [][Next]_vars

\* Any caller: arbitrary arguments, in a build with or without overflow checks.
AnyCall ==
    /\ last.n < MaxAnyCalls
    /\ \E slot_now \in AnyPoints, slot \in AnyPoints, header \in Headers,
          signer \in Signers, checks \in BOOLEAN :
           Call(slot_now, slot, header, signer, checks, NoFault)

NextAny == AnyCall

SpecAny == Init /\ [][NextAny]_vars

\* A caller whose clock is not monotone: no header comes from the future, but
\* current_time may be smaller than in an earlier call.
SkewCall ==
    /\ last.n < MaxAnyCalls
    /\ \E slot_now \in FewPoints, slot \in FewPoints, header \in Headers,
          signer \in Signers, checks \in BOOLEAN :
           /\ slot <= slot_now
           /\ Call(slot_now, slot, header, signer, checks, NoFault)

NextSkew == SkewCall

SpecSkew == Init /\ [][NextSkew]_vars

\* The call performs the store operation that fail names: the reads after the
\* age check, the second read after the first, the write when it records.
Performs(fail, slot_now, slot, signer) ==
    IF fail = NoFault THEN TRUE
    ELSE IF TooOld(slot_now, slot) THEN FALSE
    ELSE IF fail = FailGetHeaders THEN TRUE
    ELSE IF ~LoadDecode(slot_header_map[slot]).ok THEN FALSE
    ELSE IF fail = FailGetStart THEN TRUE
    ELSE /\ LoadDecode(slot_header_start).ok
         /\ FirstBySigner(slot_header_map[slot].val, signer) = 0

\* A call of the disciplined caller during which one store operation that it
\* performs may fail.
FaultCall ==
    /\ last.n < MaxFaultCalls
    /\ \E slot_now \in FewPoints, slot \in FewPoints, header \in Headers,
          signer \in Signers,
          fail \in {NoFault, FailGetHeaders, FailGetStart, FailInsert} :
           /\ last.slot_now <= slot_now
           /\ slot <= slot_now
           /\ Performs(fail, slot_now, slot, signer)
           /\ Call(slot_now, slot, header, signer, TRUE, fail)

\* A stored value is damaged on disk (or was written under another schema):
\* from now on it does not decode.
CorruptHeaders ==
    /\ last.n < MaxFaultCalls
    /\ \E s \in Keys :
           /\ slot_header_map[s].tag = "scale"
           /\ slot_header_map' = [slot_header_map EXCEPT ![s] = Junk(<<>>)]
           /\ last' = [last EXCEPT !.n = last.n + 1, !.op = "corrupt"]
           /\ UNCHANGED <<slot_header_start, recorded, calls>>

CorruptStart ==
    /\ last.n < MaxFaultCalls
    /\ slot_header_start.tag = "scale"
    /\ slot_header_start' = Junk(0)
    /\ last' = [last EXCEPT !.n = last.n + 1, !.op = "corrupt"]
    /\ UNCHANGED <<slot_header_map, recorded, calls>>

NextFault == FaultCall \/ CorruptHeaders \/ CorruptStart

SpecFault == Init /\ [][NextFault]_vars

(***************************************************************************)
(* Callers that are not serialized: each store operation of a call is one  *)
(* step, and the steps of different callers interleave.                    *)
(***************************************************************************)
\* Caller p enters check_equivocation: the age check, and for a header that
\* is not too old the first read (the list of the slot). The callers are
\* interchangeable: a new call is taken by the first caller that is free.
RaceGetHeaders(p) ==
    /\ last.n < MaxRaceCalls
    /\ calls[p].pc \in {"idle", "done"}
    /\ \A q \in Procs : q < p => calls[q].pc \notin {"idle", "done"}
    /\ \E slot_now \in RacePoints, slot \in RacePoints, header \in Headers,
          signer \in Signers :
           /\ slot <= slot_now
           /\ calls' = [calls EXCEPT ![p] =
                  [IdleCall EXCEPT
                      !.pc = IF TooOld(slot_now, slot) THEN "done" ELSE "get_start",
                      !.slot_now = slot_now, !.slot = slot,
                      !.header = header, !.signer = signer,
                      !.headers_with_sig =
                          IF ~TooOld(slot_now, slot) /\ LoadDecode(slot_header_map[slot]).some
                          THEN LoadDecode(slot_header_map[slot]).val ELSE <<>>]]
    /\ last' = [last EXCEPT !.n = last.n + 1, !.op = "race"]
    /\ UNCHANGED <<slot_header_map, slot_header_start, recorded>>

\* The second read (the watermark) and the scan of the list read before: the
\* call returns from the loop, or goes on to prune and write. A call that
\* returns keeps its arguments and its result; its locals are gone.
RaceGetStart(p) ==
    /\ calls[p].pc = "get_start"
    /\ \E l2 \in {LoadDecode(slot_header_start)},
          sc \in {Scan(calls[p].headers_with_sig, calls[p].slot,
                       calls[p].header, calls[p].signer)} :
           calls' = [calls EXCEPT ![p] =
               [calls[p] EXCEPT
                   !.pc = IF sc.kind = "new" THEN "insert_aux" ELSE "done",
                   !.headers_with_sig =
                       IF sc.kind = "new" THEN calls[p].headers_with_sig ELSE <<>>,
                   !.first_saved_slot =
                       IF sc.kind # "new" THEN 0
                       ELSE IF l2.some THEN l2.val ELSE calls[p].slot,
                   !.res = IF sc.kind = "proof" THEN "proof" ELSE "none",
                   !.proof = sc.proof]]
    /\ UNCHANGED <<slot_header_map, slot_header_start, last, recorded>>

\* The pruning decision on the watermark read and the batched write of the
\* list read, on the store as it is now.
RaceInsertAux(p) ==
    /\ calls[p].pc = "insert_aux"
    /\ \E checks \in IF Underflows(calls[p].slot_now, calls[p].first_saved_slot)
                      THEN BOOLEAN ELSE {TRUE} :
       \E out \in {Decide(slot_header_map, slot_header_start, calls[p].slot_now,
                           calls[p].slot, calls[p].header, calls[p].signer,
                           checks, NoFault, calls[p].headers_with_sig,
                           calls[p].first_saved_slot)} :
           /\ slot_header_map' = out.map
           /\ slot_header_start' = out.start
           /\ calls' = [calls EXCEPT ![p] =
                  [calls[p] EXCEPT !.pc = "done", !.headers_with_sig = <<>>,
                                   !.first_saved_slot = 0, !.res = out.res,
                                   !.proof = out.proof, !.writes = out.writes]]
           /\ recorded' = IF out.writes = 1
                          THEN recorded \cup {<<calls[p].slot, calls[p].signer,
                                                 calls[p].header>>}
                          ELSE recorded
    /\ UNCHANGED last

NextRace == \E p \in Procs : RaceGetHeaders(p) \/ RaceGetStart(p) \/ RaceInsertAux(p)

SpecRace == Init /\ [][NextRace]_vars

(***************************************************************************)
(* The properties.                                                         *)
(***************************************************************************)
\* The entry list stored under a slot (empty when absent or unreadable).
ListOf(s) == IF slot_header_map[s].tag = "scale" THEN slot_header_map[s].val ELSE <<>>

\* A slot has a stored entry list.
HasList(s) == slot_header_map[s].tag # "none"

\* C1: detection within the capacity window. For a disciplined caller, once
\* a call has recorded h1 for (s, p), every later call (now, s, h2, p) with
\* Hash(h2) # Hash(h1) and now - s <= MAX_SLOT_CAPACITY returns the proof
\* (s, h1, h2), whatever calls (pruning ones included) came in between.
DetectionWithinCapacity ==
    \A r \in recorded :
        (/\ last.op = "call"
         /\ last.slot = r[1]
         /\ last.signer = r[2]
         /\ Hash(last.header) # Hash(r[3])
         /\ last.slot_now - last.slot <= MAX_SLOT_CAPACITY)
        => (/\ last.res = "proof"
            /\ last.proof = [slot |-> r[1], fst_header |-> r[3],
                             snd_header |-> last.header])

\* C1's case: a proof at the very edge of the window, after pruning has
\* deleted an older recorded slot and a newer slot has been recorded.
DetectionWitness ==
    /\ last.op = "call"
    /\ last.res = "proof"
    /\ last.slot_now - last.slot = MAX_SLOT_CAPACITY
    /\ \E r \in recorded : r[1] < last.slot /\ ~HasList(r[1])
    /\ \E r \in recorded : r[1] > last.slot

\* C2: soundness of proofs. Whenever a call (now, s, h, p) returns a proof,
\* the store holds under s an entry (h0, p) that an earlier call recorded
\* for s and p, with Hash(h0) # Hash(h), and the proof is (s, h0, h); so
\* headers of another slot or of another signer never yield a proof.
ProofSoundness ==
    (last.op = "call" /\ last.res = "proof") =>
        \E i \in 1..Len(ListOf(last.slot)) :
            LET e == ListOf(last.slot)[i]
            IN  /\ e[2] = last.signer
                /\ Hash(e[1]) # Hash(last.header)
                /\ <<last.slot, last.signer, e[1]>> \in recorded
                /\ last.proof = [slot |-> last.slot, fst_header |-> e[1],
                                 snd_header |-> last.header]

\* C2's case: a proof returned from a slot that also holds another signer's
\* entry.
ProofSoundnessWitness ==
    /\ last.op = "call"
    /\ last.res = "proof"
    /\ Len(ListOf(last.slot)) = 2

\* A step that is one call.
CallStep == last'.op = "call" /\ last'.n = last.n + 1

\* The store is as it was.
StoreUnchanged ==
    /\ slot_header_map' = slot_header_map
    /\ slot_header_start' = slot_header_start

\* C3 as stated: a call repeated at once with identical arguments never
\* returns a proof, and leaves the store as the first call left it.
IdempotenceAsStated ==
    [][(CallStep /\ last'.again) => (last'.res # "proof" /\ StoreUnchanged)]_vars

\* C3, amended: a call repeated at once with identical arguments, the first
\* having returned Ok, returns a proof only when the first call returned that
\* same proof, and leaves the store as the first call left it.
IdempotenceAmended ==
    [][(CallStep /\ last'.again /\ last.res \in {"none", "proof"}) =>
          /\ last'.res = "proof" => (last.res = "proof" /\ last'.proof = last.proof)
          /\ last'.res \in {"none", "proof"} => last'.res = last.res
          /\ StoreUnchanged]_vars

\* C3's case: the repeated call is an equivocation, reported twice.
IdempotenceWitness ==
    /\ last.op = "call"
    /\ last.again
    /\ last.res = "proof"

\* C4: the age short-circuit. A call with current_time - slot >
\* MAX_SLOT_CAPACITY returns Ok(None) without a store read or write and
\* leaves the store unchanged, whatever the store holds.
AgeShortCircuit ==
    [][(CallStep /\ last'.slot_now - last'.slot > MAX_SLOT_CAPACITY) =>
          /\ last'.res = "none"
          /\ last'.reads = 0
          /\ last'.writes = 0
          /\ StoreUnchanged]_vars

\* C4's case: a too-old call on a slot whose stored value does not decode.
AgeShortCircuitWitness ==
    /\ last.op = "call"
    /\ last.slot_now - last.slot > MAX_SLOT_CAPACITY
    /\ slot_header_map[last.slot].tag = "junk"

\* The header of the call would be recorded: the decodable list of its slot
\* holds no entry of its signer.
WouldRecord(slot, signer) ==
    /\ slot_header_map[slot].tag # "junk"
    /\ FirstBySigner(ListOf(slot), signer) = 0

\* C5: errors propagate and change nothing. A call that passes the age check
\* and meets a value that does not decode, a failing read or a failing
\* batched write returns an error and leaves the store unchanged.
ErrorsPropagate ==
    [][(/\ CallStep
        /\ ~Underflows(last'.slot_now, last'.slot)
        /\ last'.slot_now - last'.slot <= MAX_SLOT_CAPACITY
        /\ \/ slot_header_map[last'.slot].tag = "junk"
           \/ slot_header_start.tag = "junk"
           \/ last'.fail \in {FailGetHeaders, FailGetStart}
           \/ last'.fail = FailInsert /\ WouldRecord(last'.slot, last'.signer)) =>
          /\ last'.res = "err"
          /\ StoreUnchanged]_vars

\* C5's case: the watermark does not decode while the slot's list holds a
\* conflicting entry of the signer; the call fails instead of reporting it.
ErrorsPropagateWitness ==
    /\ last.op = "call"
    /\ last.res = "err"
    /\ slot_header_start.tag = "junk"
    /\ \E i \in 1..Len(ListOf(last.slot)) :
           /\ ListOf(last.slot)[i][2] = last.signer
           /\ Hash(ListOf(last.slot)[i][1]) # Hash(last.header)

\* C6: the watermark lower-bounds the index. For a disciplined caller
\* starting from an empty store, the stored watermark is <= every slot that
\* has a stored entry list.
WatermarkBelowIndex ==
    slot_header_start.tag = "scale" =>
        \A s \in Keys : HasList(s) => slot_header_start.val <= s

\* C7: bounded retention. For a disciplined caller starting from an empty
\* store, the largest and the smallest slot that have a stored entry list
\* differ by at most PRUNING_BOUND.
IndexSpanBounded ==
    \A s1 \in Keys, s2 \in Keys :
        (HasList(s1) /\ HasList(s2)) => s2 - s1 <= PRUNING_BOUND

\* C8: watermark monotonicity. Once the watermark is written, no call of any
\* caller stores a smaller one.
WatermarkMonotone ==
    [][(slot_header_start.tag = "scale" /\ slot_header_start'.tag = "scale") =>
          slot_header_start'.val >= slot_header_start.val]_vars

NoWriteOnDetection ==
    [][(CallStep /\ last'.res = "proof") =>
          /\ last'.writes = 0
          /\ StoreUnchanged
          /\ \A r \in recorded :
                (r[1] = last'.slot /\ r[2] = last'.signer)
                => last'.proof.fst_header = r[3]]_vars

\* C10's case: a proof returned by a call for which pruning was due.
NoWriteOnDetectionWitness ==
    /\ last.op = "call"
    /\ last.res = "proof"
    /\ last.slot_now - last.first_saved_slot >= PRUNING_BOUND
    /\ slot_header_start.val = last.first_saved_slot

\* C11: one entry per signer per slot. In every state a disciplined caller
\* reaches from the empty store, no stored entry list holds two entries of
\* the same signer (so two entries of equal signer have equal header hash).
OneEntryPerSigner ==
    \A s \in Keys :
        \A i \in 1..Len(ListOf(s)), j \in 1..Len(ListOf(s)) :
            ListOf(s)[i][2] = ListOf(s)[j][2] => i = j

\* C11's case: a slot holds the entries of two signers, and the last call
\* brought a second header of one of them and was turned away with a proof.
OneEntryPerSignerWitness ==
    /\ last.op = "call"
    /\ last.res = "proof"
    /\ Len(ListOf(last.slot)) = Cardinality(Signers)
    /\ \A r \in recorded : r[1] = last.slot => r[3] # last.header

\* C12: the entry being recorded is never pruned by its own call. In every
\* call of any caller that makes the batched write, with w the watermark read
\* and nw the watermark written, the slot written is not in the deleted range
\* [w, nw), it is >= nw when the call pruned (nw # w), and after the write its
\* key holds a list that ends with the entry of the call.
RecordedEntryNotPruned ==
    [][(CallStep /\ last'.writes = 1) =>
          LET w == last'.first_saved_slot
              nw == slot_header_start'.val
              list == slot_header_map'[last'.slot]
          IN  /\ slot_header_start'.tag = "scale"
              /\ ~(w <= last'.slot /\ last'.slot < nw)
              /\ (nw # w) => last'.slot >= nw
              /\ list.tag = "scale"
              /\ Len(list.val) > 0
              /\ list.val[Len(list.val)] = <<last'.header, last'.signer>>]_vars

\* C12's case: a recording call that pruned, deleted a recorded slot, and
\* wrote a slot at the very edge of the kept window.
RecordedEntryNotPrunedWitness ==
    /\ last.op = "call"
    /\ last.writes = 1
    /\ slot_header_start.val # last.first_saved_slot
    /\ last.slot = slot_header_start.val
    /\ HasList(last.slot)
    /\ \E r \in recorded : ~HasList(r[1])

\* C13: the watermark lag is bounded after recording. For a disciplined
\* caller, right after every call that records an entry, the stored watermark
\* w satisfies 0 <= current_time - w < PRUNING_BOUND.
WatermarkLagBounded ==
    (last.op = "call" /\ last.writes = 1) =>
        /\ slot_header_start.tag = "scale"
        /\ slot_header_start.val <= last.slot_now
        /\ last.slot_now - slot_header_start.val < PRUNING_BOUND

\* C13's case: a recording call that found a lag of PRUNING_BOUND or more and
\* cut it to MAX_SLOT_CAPACITY.
WatermarkLagBoundedWitness ==
    /\ last.op = "call"
    /\ last.writes = 1
    /\ last.slot_now - last.first_saved_slot > PRUNING_BOUND
    /\ last.slot_now - slot_header_start.val = MAX_SLOT_CAPACITY

\* C14: the cold store. The watermark key is absent exactly as long as no
\* call has recorded an entry; on a store without it, a call that passes the
\* age check records its entry as the whole list of its slot, deletes and
\* changes no other key, and stores its slot as the watermark.
ColdStore ==
    [][/\ (slot_header_start.tag = "none") <=> (recorded = {})
       /\ (slot_header_start'.tag = "none") <=> (recorded' = {})
       /\ (/\ CallStep
           /\ slot_header_start.tag = "none"
           /\ last'.slot_now - last'.slot <= MAX_SLOT_CAPACITY) =>
             /\ last'.res = "none"
             /\ last'.writes = 1
             /\ slot_header_start' = Encode(last'.slot)
             /\ slot_header_map' =
                    [slot_header_map EXCEPT
                        ![last'.slot] = Encode(<<<<last'.header, last'.signer>>>>)]]_vars

\* C14's case: the store stayed cold through a call that was too old, and the
\* next call, at the edge of the age window, made the first record.
ColdStoreWitness ==
    /\ last.op = "call"
    /\ last.n >= 2
    /\ last.writes = 1
    /\ Cardinality(recorded) = 1
    /\ last.slot_now - last.slot = MAX_SLOT_CAPACITY
    /\ slot_header_start = Encode(last.slot)

\* C15: recording is append-only. A recording call for slot s stores under s
\* the list it found there with (header, signer) appended; every other slot
\* keeps its raw value, except the slots in the pruned range [w, nw), whose
\* keys are deleted. No step of any kind changes a slot's value in another
\* way than deleting its key or appending one entry to its list.
AppendOnly ==
    [][/\ (CallStep /\ last'.writes = 1) =>
             LET w == last'.first_saved_slot
                 nw == slot_header_start'.val
             IN  /\ slot_header_map'[last'.slot] =
                        Encode(Append(ListOf(last'.slot), <<last'.header, last'.signer>>))
                 /\ \A s \in Keys \ {last'.slot} :
                        \/ slot_header_map'[s] = slot_header_map[s]
                        \/ w <= s /\ s < nw /\ slot_header_map'[s].tag = "none"
       /\ \A s \in Keys :
             \/ slot_header_map'[s] = slot_header_map[s]
             \/ slot_header_map'[s].tag = "none"
             \/ /\ slot_header_map'[s].tag = "scale"
                /\ Len(slot_header_map'[s].val) = Len(ListOf(s)) + 1
                /\ SubSeq(slot_header_map'[s].val, 1, Len(ListOf(s))) = ListOf(s)]_vars

\* C15's case: one call appended a second entry to its slot's list and
\* deleted the key of an older recorded slot.
AppendOnlyWitness ==
    /\ last.op = "call"
    /\ last.writes = 1
    /\ Len(ListOf(last.slot)) = 2
    /\ slot_header_start.val # last.first_saved_slot
    /\ \E r \in recorded : r[1] >= last.first_saved_slot /\ ~HasList(r[1])

\* C17: no subtraction underflow. For sequential calls that each satisfy
\* slot <= current_time, a call that reaches the pruning decision (both reads
\* done and no entry of the signer found: it goes on to write, or panics at
\* the subtraction) has read a watermark <= its current_time.
NoSubtractionUnderflow ==
    (/\ last.op = "call"
     /\ last.reads = 2
     /\ last.writes = 1 \/ last.res = "panic") =>
        last.first_saved_slot <= last.slot_now

\* The steps of caller p: its write, and any step at all.
RaceWriteStep(p) == calls[p].pc = "insert_aux" /\ calls'[p].pc = "done"

\* The stored list of the slot holds a header of the signer with another hash.
StoredConflict(slot, header, signer) ==
    \E i \in 1..Len(ListOf(slot)) :
        /\ ListOf(slot)[i][2] = signer
        /\ Hash(ListOf(slot)[i][1]) # Hash(header)

\* C16: callers that are not serialized lose evidence. When a call that read
\* an empty list for its slot comes to its write while the store already
\* holds, for the same slot and signer, a header with another hash (written
\* meanwhile by another call), it returns Ok(None) and its write replaces the
\* stored list by its own entry alone: the equivocation is not reported and
\* only one of the two headers stays stored. (The subtraction at the pruning
\* decision is taken not to underflow.)
RaceLosesEvidence ==
    [][\A p \in Procs :
          (/\ RaceWriteStep(p)
           /\ calls[p].headers_with_sig = <<>>
           /\ ~Underflows(calls[p].slot_now, calls[p].first_saved_slot)
           /\ StoredConflict(calls[p].slot, calls[p].header, calls[p].signer)) =>
             /\ calls'[p].res = "none"
             /\ calls'[p].writes = 1
             /\ slot_header_map'[calls[p].slot] =
                    Encode(<<<<calls[p].header, calls[p].signer>>>>)]_vars

\* C16's case: only two calls were ever started, for the same slot and signer
\* with headers of different hashes; both returned Ok(None), both wrote, and
\* one entry is stored.
RaceLosesEvidenceWitness ==
    /\ last.n = 2
    /\ \A p \in {1, 2} :
           /\ calls[p].pc = "done"
           /\ calls[p].res = "none"
           /\ calls[p].writes = 1
    /\ calls[1].slot = calls[2].slot
    /\ calls[1].signer = calls[2].signer
    /\ Hash(calls[1].header) # Hash(calls[2].header)
    /\ Len(ListOf(calls[1].slot)) = 1
    /\ recorded = {<<calls[1].slot, calls[1].signer, calls[1].header>>,
                   <<calls[2].slot, calls[2].signer, calls[2].header>>}

\* No two entries of the list are of the same signer.
SignersDistinct(list) ==
    \A i \in 1..Len(list), j \in 1..Len(list) : list[i][2] = list[j][2] => i = j

\* C18: uniqueness survives races. However the steps of the callers
\* interleave, every stored list holds at most one entry per signer: the list
\* a call holds after its read has distinct signers, and a call that has come
\* to its write holds a list in which its signer does not occur.
UniquenessUnderRaces ==
    /\ \A s \in Keys : SignersDistinct(ListOf(s))
    /\ \A p \in Procs :
          /\ SignersDistinct(calls[p].headers_with_sig)
          /\ calls[p].pc = "insert_aux" =>
                \A i \in 1..Len(calls[p].headers_with_sig) :
                    calls[p].headers_with_sig[i][2] # calls[p].signer

\* C18's case: a stored list with the entries of two signers, while a call
\* that read the slot's list before they were written waits to overwrite it.
UniquenessUnderRacesWitness ==
    \E p \in Procs :
        /\ calls[p].pc = "insert_aux"
        /\ calls[p].headers_with_sig = <<>>
        /\ Len(ListOf(calls[p].slot)) = 2

====
